---- MODULE Spec2Model ----
(***************************************************************************)
(* Model of the title similarity service (ml-service): the handler         *)
(* check_similarity of app/main.py and the scoring helpers of              *)
(* app/utils/similarity.py.                                                *)
(*                                                                         *)
(* Strings are sequences of one-character strings.  Scores and thresholds  *)
(* are fixed-point numbers with Scale units per 1.0.  jellyfish.metaphone, *)
(* the TF-IDF cosine and the sentence-embedding cosine are library code:   *)
(* their results are inputs of the model (the record env), functions of    *)
(* the string they are computed for.                                       *)
(***************************************************************************)
EXTENDS Integers, Sequences, FiniteSets, TLC

VARIABLES
    payload,   \* SimilarityRequest: [title, existing_titles, threshold]
    env,       \* what the library scorers answer: [metaphone, lexical, semantic, sbert]
    pc,        \* the handler's position: "request", "edit_distance_pass", "done"
    lev_matches, \* levenshtein_matches, once the edit-distance pass has run
    resp,      \* the handler's response: [status, matches]
    invoked,   \* the scorers the handler called
    failed,    \* the scorer that raised ("none" when none did)
    p_in,      \* check_similarity_scores, pruning part: [lexical, threshold, candidate_semantic]
    p_out,     \* its result: [indices, semantic]
    ph_in,     \* phonetic scorers: [query, corpus, metaphone]
    ph_out     \* their results: [batched, pairwise]

vars == <<payload, env, pc, lev_matches, resp, invoked, failed, p_in, p_out, ph_in, ph_out>>

----------------------------------------------------------------------------
(* Bounds of the model *)

\* longest corpus (existing_titles) of a request
MaxCorpus == 2
\* longest lexical score vector given to the pruning step
MaxPruneCorpus == 4
\* longest corpus given to the phonetic scorers
MaxPhoneticCorpus == 2
\* the cap on the semantic candidates: 500 in the source (similarity.py, line
\* 120), scaled down so that corpora longer than the cap can be enumerated
SemanticCap == 2

----------------------------------------------------------------------------
(* Fixed-point scores *)

Scale == 1000 * 1000

Max(a, b) == IF a >= b THEN a ELSE b

Min(a, b) == IF a <= b THEN a ELSE b

\* a / b rounded to the nearest unit, a >= 0, b > 0
Div(a, b) == (2 * a + b) \div (2 * b)

\* float(round(score, 4)): to the nearest 1/10000, ties to even
Round4(score) ==
    LET unit == Scale \div 10000
        a    == IF score < 0 THEN -score ELSE score
        q    == a \div unit
        r    == a % unit
        up   == IF 2 * r > unit \/ (2 * r = unit /\ q % 2 = 1) THEN q + 1 ELSE q
    IN  IF score < 0 THEN -(up * unit) ELSE up * unit

----------------------------------------------------------------------------
(* Strings *)

IsSpace(c) == c = " "

\* str.strip()
Strip(s) ==
    LET ink == {i \in 1..Len(s) : ~IsSpace(s[i])}
    IN  IF ink = {} THEN <<>>
        ELSE SubSeq(s, CHOOSE i \in ink : \A j \in ink : i <= j,
                       CHOOSE i \in ink : \A j \in ink : i >= j)

\* str.split(): the maximal runs of non-space characters, in order
RECURSIVE SplitFrom(_, _, _, _)
SplitFrom(s, i, word, words) ==
    IF i > Len(s)
    THEN IF word = <<>> THEN words ELSE Append(words, word)
    ELSE IF IsSpace(s[i])
         THEN SplitFrom(s, i + 1, <<>>, IF word = <<>> THEN words ELSE Append(words, word))
         ELSE SplitFrom(s, i + 1, Append(word, s[i]), words)

Split(s) == SplitFrom(s, 1, <<>>, <<>>)

\* ' '.join(words)
RECURSIVE Join(_)
Join(words) ==
    IF words = <<>> THEN <<>>
    ELSE IF Len(words) = 1 THEN words[1]
    ELSE words[1] \o <<" ">> \o Join(Tail(words))

\* seq[::-1]
Reversed(s) == [i \in 1..Len(s) |-> s[Len(s) + 1 - i]]

\* ' '.join(title.split()[::-1])
ReversedWords(title) == Join(Reversed(Split(title)))

LowerChar(c) ==
    CASE c = "H" -> "h"
      [] c = "W" -> "w"
      [] c = "Q" -> "q"
      [] c = "R" -> "r"
      [] OTHER   -> c

\* str.lower()
Lower(s) == [i \in 1..Len(s) |-> LowerChar(s[i])]

\* jellyfish.levenshtein_distance(a, b): one row of the distance table from
\* the row before it
RECURSIVE LevRow(_, _, _, _)
LevRow(prev, ca, b, cur) ==
    IF Len(cur) = Len(b) + 1 THEN cur
    ELSE LET j    == Len(cur)
             cost == IF ca = b[j] THEN 0 ELSE 1
         IN  LevRow(prev, ca, b,
                    Append(cur, Min(Min(prev[j + 1] + 1, cur[j] + 1), prev[j] + cost)))

\* the rows one after the other; a row is complete before the next is begun
RECURSIVE LevFrom(_, _, _, _)
LevFrom(a, b, i, prev) ==
    IF i > Len(a) THEN prev[Len(b) + 1]
    ELSE LET row == LevRow(prev, a[i], b, <<i>>)
         IN  IF Len(row) = Len(b) + 1 THEN LevFrom(a, b, i + 1, row) ELSE -1

levenshtein_distance(a, b) == LevFrom(a, b, 1, [j \in 1..Len(b) + 1 |-> j - 1])

----------------------------------------------------------------------------
(* The strings requests are made of *)

\* "Hello"
S_Hello == <<"H", "e", "l", "l", "o">>

\* " Hello World"
S_HelloWorld == <<" ", "H", "e", "l", "l", "o", " ", "W", "o", "r", "l", "d">>

\* "Quarterly Report 2023"
S_Quarterly == <<"Q", "u", "a", "r", "t", "e", "r", "l", "y", " ", "R", "e", "p", "o", "r", "t", " ", "2", "0", "2", "3">>

\* "annual revenue report"
S_Annual == <<"a", "n", "n", "u", "a", "l", " ", "r", "e", "v", "e", "n", "u", "e", " ", "r", "e", "p", "o", "r", "t">>

\* " "
S_Blank == <<" ">>

\* "Helo"
E_Helo == <<"H", "e", "l", "o">>

\* "World Hello "
E_WorldHello == <<"W", "o", "r", "l", "d", " ", "H", "e", "l", "l", "o", " ">>

\* "2023 Quarterly Report"
E_Quarterly == <<"2", "0", "2", "3", " ", "Q", "u", "a", "r", "t", "e", "r", "l", "y", " ", "R", "e", "p", "o", "r", "t">>

\* "a b"
S_AB == <<"a", " ", "b">>

\* "c d"
E_CD == <<"c", " ", "d">>

\* "annual revenue report!"
E_Annual == <<"a", "n", "n", "u", "a", "l", " ", "r", "e", "v", "e", "n", "u", "e", " ", "r", "e", "p", "o", "r", "t", "!">>

----------------------------------------------------------------------------
(* app/utils/similarity.py *)

levenshtein_distance_score(a, b) ==
    IF a = <<>> \/ b = <<>> THEN 0
    ELSE LET dist    == levenshtein_distance(Lower(a), Lower(b))
             max_len == Max(Len(a), Len(b))
         IN  IF max_len = 0 THEN Scale
             ELSE Scale - Div(dist * Scale, max_len)

\* 1 - distance / max_len of two phonetic codes
CodeSimilarity(a_codes, b_codes) ==
    Scale - Div(levenshtein_distance(a_codes, b_codes) * Scale,
                Max(Len(a_codes), Len(b_codes)))

phonetic_score(a, b, metaphone) ==
    LET a_codes == metaphone[a]
        b_codes == metaphone[b]
    IN  IF a_codes = b_codes THEN Scale
        ELSE IF a_codes = <<>> \/ b_codes = <<>> THEN 0
        ELSE CodeSimilarity(a_codes, b_codes)

phonetic_scores(query, corpus, metaphone) ==
    IF corpus = <<>> THEN <<>>
    ELSE LET q_code == metaphone[query]
         IN  IF q_code = <<>> THEN [i \in 1..Len(corpus) |-> 0]
             ELSE [i \in 1..Len(corpus) |->
                     LET t_code == metaphone[corpus[i]]
                     IN  IF q_code = t_code THEN Scale
                         ELSE IF t_code = <<>> THEN 0
                         ELSE CodeSimilarity(q_code, t_code)]

\* a character of \w, of the strings of this model
IsWordChar(c) == c \notin {" ", "!"}

\* TfidfVectorizer's tokens are the runs of two or more word characters
HasToken(s) == \E i \in 1..Len(s) - 1 : IsWordChar(s[i]) /\ IsWordChar(s[i + 1])

\* TfidfVectorizer().fit_transform(texts) raises ValueError (empty vocabulary)
\* when no text holds a token
EmptyVocabulary(query, corpus) ==
    ~HasToken(query) /\ \A i \in 1..Len(corpus) : ~HasToken(corpus[i])

\* the TF-IDF cosine of the query and each corpus entry, as the library answers
lexical_scores(query, corpus, e) ==
    IF corpus = <<>> THEN <<>>
    ELSE [i \in 1..Len(corpus) |-> e.lexical[corpus[i]]]

\* the embedding cosine, all zero when the model is not loaded
semantic_scores(query, corpus, e) ==
    IF ~e.sbert \/ corpus = <<>> THEN [i \in 1..Len(corpus) |-> 0]
    ELSE [i \in 1..Len(corpus) |-> e.semantic[corpus[i]]]

Range(s) == {s[i] : i \in 1..Len(s)}

\* sorted(range(n), key=lambda i: keys[i], reverse=True): a stable sort, so
\* indices of equal key keep their order
SortedIndicesDesc(keys) ==
    LET n       == Len(keys)
        rank(i) == 1 + Cardinality({j \in 1..n :
                         keys[j] > keys[i] \/ (keys[j] = keys[i] /\ j < i)})
    IN  [r \in 1..n |-> CHOOSE i \in 1..n : rank(i) = r]

max_semantic_candidates(n) == Min(SemanticCap, n)

\* the lower bound of the lexical scores that are always kept
KeepBound(threshold) == Max(threshold - Scale \div 10, 0)

RECURSIVE UniqueInOrder(_, _)
UniqueInOrder(indices, unique) ==
    IF indices = <<>> THEN unique
    ELSE UniqueInOrder(Tail(indices),
                       IF Head(indices) \in Range(unique) THEN unique
                       ELSE Append(unique, Head(indices)))

\* the selection without the indices kept for their lexical score
TopCandidatesOnly(lexical, threshold) ==
    SubSeq(SortedIndicesDesc(lexical), 1, max_semantic_candidates(Len(lexical)))

\* unique_candidate_indices: the indices whose entries go to semantic_scores
unique_candidate_indices(lexical, threshold) ==
    LET n                 == Len(lexical)
        sorted_indices    == SortedIndicesDesc(lexical)
        candidate_indices == SubSeq(sorted_indices, 1, max_semantic_candidates(n))
        extra_indices     == SelectSeq([i \in 1..n |-> i],
                                 LAMBDA i : /\ lexical[i] >= KeepBound(threshold)
                                            /\ i \notin Range(candidate_indices))
    IN  UniqueInOrder(candidate_indices \o extra_indices, <<>>)

\* semantic = [0.0] * n, then semantic[i] = score for the zipped pairs
ScatterSemantic(n, indices, candidate_semantic) ==
    [i \in 1..n |->
        LET at == {k \in 1..Min(Len(indices), Len(candidate_semantic)) : indices[k] = i}
        IN  IF at = {} THEN 0
            ELSE candidate_semantic[CHOOSE k \in at : \A k2 \in at : k2 <= k]]

check_similarity_scores(title, existing, threshold, e) ==
    IF existing = <<>>
    THEN [raised |-> "none", phonetic |-> <<>>, lexical |-> <<>>, semantic |-> <<>>]
    ELSE IF EmptyVocabulary(title, existing)
    THEN [raised |-> "lexical", phonetic |-> <<>>, lexical |-> <<>>, semantic |-> <<>>]
    ELSE LET lexical == lexical_scores(title, existing, e)
             indices == unique_candidate_indices(lexical, threshold)
             candidate_corpus == [k \in 1..Len(indices) |-> existing[indices[k]]]
         IN  [raised   |-> "none",
              phonetic |-> phonetic_scores(Lower(title),
                               [i \in 1..Len(existing) |-> Lower(existing[i])],
                               e.metaphone),
              lexical  |-> lexical,
              semantic |-> IF indices = <<>> THEN [i \in 1..Len(existing) |-> 0]
                           ELSE ScatterSemantic(Len(existing), indices,
                                    semantic_scores(title, candidate_corpus, e))]

Match(t, score, type) == [title |-> t, similarity |-> Round4(score), type |-> type]

\* the matches of entry i: phonetic, lexical, semantic, those at or over the threshold
EntryMatches(scores, existing, threshold, i) ==
    (IF scores.phonetic[i] >= threshold
        THEN <<Match(existing[i], scores.phonetic[i], "phonetic")>> ELSE <<>>)
    \o (IF scores.lexical[i] >= threshold
        THEN <<Match(existing[i], scores.lexical[i], "lexical")>> ELSE <<>>)
    \o (IF scores.semantic[i] >= threshold
        THEN <<Match(existing[i], scores.semantic[i], "semantic")>> ELSE <<>>)

RECURSIVE ThresholdMatches(_, _, _, _)
ThresholdMatches(scores, existing, threshold, i) ==
    IF i > Len(existing) THEN <<>>
    ELSE EntryMatches(scores, existing, threshold, i)
         \o ThresholdMatches(scores, existing, threshold, i + 1)

\* dedup[key] = m when the key is new or m is more similar; a dict keeps the
\* place of a key's first insertion
RECURSIVE Dedup(_, _)
Dedup(matches, dedup) ==
    IF matches = <<>> THEN dedup
    ELSE LET m    == Head(matches)
             same == {k \in 1..Len(dedup) :
                        dedup[k].title = m.title /\ dedup[k].type = m.type}
         IN  Dedup(Tail(matches),
                   IF same = {} THEN Append(dedup, m)
                   ELSE LET k == CHOOSE k \in same : TRUE
                        IN  IF m.similarity > dedup[k].similarity
                            THEN [dedup EXCEPT ![k] = m]
                            ELSE dedup)

\* the matches left in the order they were found
Unsorted(matches) == matches

\* sorted(matches, key=lambda m: m["similarity"], reverse=True)
SortedBySimilarity(matches) ==
    LET order == SortedIndicesDesc([i \in 1..Len(matches) |-> matches[i].similarity])
    IN  [r \in 1..Len(matches) |-> matches[order[r]]]

find_matches_with_threshold(scores, existing, threshold) ==
    SortedBySimilarity(Dedup(ThresholdMatches(scores, existing, threshold, 1), <<>>))

----------------------------------------------------------------------------
(* app/main.py: check_similarity *)

\* Optional[float]: None is the empty sequence, a value v is <<v>>
None == <<>>

DefaultThreshold == (75 * Scale) \div 100

ShortCircuitFloor == (95 * Scale) \div 100

\* title = payload.title.strip()
Title(p) == Strip(p.title)

\* existing = [t.strip() for t in payload.existing_titles if t and t.strip()]
Existing(p) ==
    LET kept == SelectSeq(p.existing_titles, LAMBDA t : t # <<>> /\ Strip(t) # <<>>)
    IN  [i \in 1..Len(kept) |-> Strip(kept[i])]

Threshold(p) == IF p.threshold = None THEN DefaultThreshold ELSE p.threshold[1]

\* the two edit-distance scores of an entry: the title as given, and the
\* title with its words reversed
ForwardScore(title, t) == levenshtein_distance_score(title, t)

ReversedScore(title, t) == levenshtein_distance_score(ReversedWords(title), t)

RECURSIVE levenshtein_matches(_, _, _, _)
levenshtein_matches(title, existing, threshold, i) ==
    IF i > Len(existing) THEN <<>>
    ELSE LET t        == existing[i]
             forward  == ForwardScore(title, t)
             reversed == ReversedScore(title, t)
         IN  (IF forward >= threshold
                 THEN <<Match(t, forward, "levenshtein")>> ELSE <<>>)
             \o (IF reversed >= threshold
                 THEN <<Match(t, reversed, "levenshtein")>> ELSE <<>>)
             \o levenshtein_matches(title, existing, threshold, i + 1)

\* max(m["similarity"] for m in matches)
MaxSimilarity(matches) ==
    CHOOSE s \in {m.similarity : m \in Range(matches)} :
        \A m \in Range(matches) : m.similarity <= s

\* the early return on a very strong edit-distance match
ShortCircuits(lev, threshold) ==
    /\ lev # <<>>
    /\ MaxSimilarity(lev) >= Max(threshold, ShortCircuitFloor)

\* candidate_titles = [t for t in existing if t in matched_titles]
candidate_titles(existing, lev) ==
    SelectSeq(existing, LAMBDA t : t \in {m.title : m \in Range(lev)})

\* all_matches deduplicated and sorted, the other methods scored on the
\* candidate titles only
NarrowMatches(lev, scores, candidates, threshold) ==
    LET other_matches == ThresholdMatches(scores, candidates, threshold, 1)
    IN  SortedBySimilarity(Dedup(lev \o other_matches, <<>>))

\* the scorers check_similarity_scores has called when it returns or raises
ScoringInvoked(scores) ==
    IF scores.raised = "lexical" THEN {"phonetic", "lexical"}
    ELSE {"phonetic", "lexical", "semantic"}

Response(status, matches, called, raised) ==
    [status |-> status, matches |-> matches, invoked |-> called, failed |-> raised]

\* an uncaught exception of a scorer ends the request with no result
Aborted(called, raised) == Response("Error", <<>>, called, raised)

\* the handler after the edit-distance pass found the matches lev
AfterEditDistance(title, existing, threshold, lev, e) ==
        IF ShortCircuits(lev, threshold)
        THEN Response("Not Unique", SortedBySimilarity(lev), {"levenshtein"}, "none")
        ELSE IF lev # <<>>
        THEN LET candidates == candidate_titles(existing, lev)
                 scores     == check_similarity_scores(title, candidates, threshold, e)
                 called     == {"levenshtein"} \cup ScoringInvoked(scores)
             IN  IF scores.raised # "none" THEN Aborted(called, scores.raised)
                 ELSE Response("Not Unique",
                               NarrowMatches(lev, scores, candidates, threshold),
                               called, "none")
        ELSE LET scores  == check_similarity_scores(title, existing, threshold, e)
                 called  == {"levenshtein"} \cup ScoringInvoked(scores)
                 matches == find_matches_with_threshold(scores, existing, threshold)
             IN  IF scores.raised # "none" THEN Aborted(called, scores.raised)
                 ELSE IF matches # <<>>
                 THEN Response("Not Unique", matches, called, "none")
                 ELSE Response("Unique", <<>>, called, "none")

\* the handler, from the request to its response
check_similarity(p, e) ==
    LET title     == Title(p)
        existing  == Existing(p)
        threshold == Threshold(p)
    IN  IF title = <<>> THEN Response("Invalid", <<>>, {}, "none")
        ELSE IF existing = <<>> THEN Response("Unique", <<>>, {}, "none")
        ELSE AfterEditDistance(title, existing, threshold,
                 levenshtein_matches(title, existing, threshold, 1), e)

----------------------------------------------------------------------------
(* The requests and the library answers the model draws from *)

ShortTitles == {<<>>, S_Blank, S_Hello, S_HelloWorld, S_AB}

ShortEntries == {S_Blank, S_Hello, E_Helo, E_WorldHello, E_CD}

LongTitles == {S_Quarterly, S_Annual}

LongEntries == {E_Quarterly, E_Annual}

Corpora(entries) == UNION {[1..n -> entries] : n \in 0..MaxCorpus}

\* absent, 0.9, 0.95454, 1.0, 1.5 and -1.0, in units of 1/Scale
Thresholds ==
    {None, <<(9 * Scale) \div 10>>, <<954540>>, <<Scale>>,
     <<(3 * Scale) \div 2>>, <<-Scale>>}

Requests ==
    [title : ShortTitles, existing_titles : Corpora(ShortEntries), threshold : Thresholds]
    \cup
    [title : LongTitles, existing_titles : Corpora(LongEntries), threshold : Thresholds]

\* the phonetic codes metaphone answers with
Codes == {<<>>, <<"H", "L">>}

\* what the libraries answer for a corpus entry: its phonetic code and its
\* lexical and semantic cosine
Answers ==
    {[code |-> <<>>,         lexical |-> 0,      semantic |-> 0],
     [code |-> <<"H", "L">>, lexical |-> Scale,  semantic |-> 912345],
     [code |-> <<"H", "L">>, lexical |-> 954545, semantic |-> -(Scale \div 2)]}

NoEnv == [metaphone |-> <<>>, lexical |-> <<>>, semantic |-> <<>>, sbert |-> FALSE]

\* the answers of the library scorers for the strings of request p: metaphone
\* is a function of the lower-cased string, the cosines of the entry
Envs(p) ==
    IF Title(p) = <<>> \/ Existing(p) = <<>> THEN {NoEnv}
    ELSE LET ents  == Range(Existing(p))
             query == Lower(Title(p))
             strs  == {query} \cup {Lower(t) : t \in ents}
         IN  {[metaphone |-> [x \in strs |->
                                IF \E t \in ents : Lower(t) = x
                                THEN ans[CHOOSE t \in ents : Lower(t) = x].code
                                ELSE q_code],
               lexical   |-> [t \in ents |-> ans[t].lexical],
               semantic  |-> [t \in ents |-> ans[t].semantic],
               sbert     |-> loaded] :
                  ans \in [ents -> Answers], q_code \in Codes, loaded \in BOOLEAN}

NoResponse == [status |-> "", matches |-> <<>>]

Idle == <<>>

----------------------------------------------------------------------------
(* The service: one request, handled start to finish *)

Init ==
    /\ payload \in Requests
    /\ env \in Envs(payload)
    /\ pc = "request"
    /\ lev_matches = <<>>
    /\ resp = NoResponse
    /\ invoked = {}
    /\ failed = "none"
    /\ p_in = Idle /\ p_out = Idle /\ ph_in = Idle /\ ph_out = Idle

Return(r) ==
    /\ resp' = [status |-> r.status, matches |-> r.matches]
    /\ invoked' = r.invoked
    /\ failed' = r.failed
    /\ pc' = "done"
    /\ UNCHANGED <<payload, env, lev_matches, p_in, p_out, ph_in, ph_out>>

\* main.py, lines 58-59
ReturnInvalid ==
    /\ pc = "request"
    /\ Title(payload) = <<>>
    /\ Return(check_similarity(payload, env))

\* main.py, lines 60-61
ReturnEmptyCorpus ==
    /\ pc = "request"
    /\ Title(payload) # <<>>
    /\ Existing(payload) = <<>>
    /\ Return(check_similarity(payload, env))

\* main.py, lines 63-82
EditDistancePass ==
    /\ pc = "request"
    /\ Title(payload) # <<>>
    /\ Existing(payload) # <<>>
    /\ lev_matches' = levenshtein_matches(Title(payload), Existing(payload), Threshold(payload), 1)
    /\ pc' = "edit_distance_pass"
    /\ UNCHANGED <<payload, env, resp, invoked, failed, p_in, p_out, ph_in, ph_out>>

\* the rest of the handler, from line 84
Rest == AfterEditDistance(Title(payload), Existing(payload), Threshold(payload), lev_matches, env)

\* main.py, lines 85-94
ShortCircuit ==
    /\ pc = "edit_distance_pass"
    /\ ShortCircuits(lev_matches, Threshold(payload))
    /\ Return(Rest)

\* main.py, lines 96-139
NarrowAndScoreOthers ==
    /\ pc = "edit_distance_pass"
    /\ ~ShortCircuits(lev_matches, Threshold(payload))
    /\ lev_matches # <<>>
    /\ Rest.failed = "none"
    /\ Return(Rest)

\* main.py, lines 141-165
FullScoreOthers ==
    /\ pc = "edit_distance_pass"
    /\ lev_matches = <<>>
    /\ Rest.failed = "none"
    /\ Return(Rest)

\* main.py, lines 102 and 142: a scorer raises and nothing catches it
ScorerRaises ==
    /\ pc = "edit_distance_pass"
    /\ ~ShortCircuits(lev_matches, Threshold(payload))
    /\ Rest.failed # "none"
    /\ Return(Rest)

Next ==
    \/ ReturnInvalid
    \/ ReturnEmptyCorpus
    \/ EditDistancePass
    \/ ShortCircuit
    \/ NarrowAndScoreOthers
    \/ FullScoreOthers
    \/ ScorerRaises

Spec == Init /\ [][Next]_vars

----------------------------------------------------------------------------
(* check_similarity_scores, the selection of the semantic candidates, as a  *)
(* function of the lexical scores and the threshold                         *)

\* lexical cosines 0, 0.7 and 1.0
PruneCosines == {0, (7 * Scale) \div 10, Scale}

\* thresholds 0.05, 0.75 and 0.95
PruneThresholds == {Scale \div 20, DefaultThreshold, ShortCircuitFloor}

PruneInputs ==
    [lexical   : UNION {[1..n -> PruneCosines] : n \in 0..MaxPruneCorpus},
     threshold : PruneThresholds,
     cosine    : {812345, -(Scale \div 2)}]

PruneInit ==
    /\ p_in \in PruneInputs
    /\ p_out = Idle
    /\ pc = "prune"
    /\ payload = Idle /\ env = NoEnv /\ lev_matches = <<>> /\ resp = NoResponse
    /\ invoked = {} /\ failed = "none" /\ ph_in = Idle /\ ph_out = Idle

\* similarity.py, lines 116-146, the semantic scorer answering p_in.cosine for every candidate
Prune ==
    /\ pc = "prune"
    /\ LET indices == unique_candidate_indices(p_in.lexical, p_in.threshold)
       IN  p_out' = [indices  |-> indices,
                     semantic |-> ScatterSemantic(Len(p_in.lexical), indices,
                                      [k \in 1..Len(indices) |-> p_in.cosine])]
    /\ pc' = "pruned"
    /\ UNCHANGED <<payload, env, lev_matches, resp, invoked, failed, p_in, ph_in, ph_out>>

PruneNext == Prune

SpecPrune == PruneInit /\ [][PruneNext]_vars

----------------------------------------------------------------------------
(* The two phonetic scorers on the same query and corpus *)

\* "hello", "helo" and "123"
PhoneticStrings ==
    {<<"h", "e", "l", "l", "o">>, <<"h", "e", "l", "o">>, <<"1", "2", "3">>}

PhoneticCodes == {<<>>, <<"H", "L">>, <<"H", "L", "T">>}

PhoneticInputs ==
    [query     : PhoneticStrings,
     corpus    : UNION {[1..n -> PhoneticStrings] : n \in 0..MaxPhoneticCorpus},
     metaphone : [PhoneticStrings -> PhoneticCodes]]

PhoneticInit ==
    /\ ph_in \in PhoneticInputs
    /\ ph_out = Idle
    /\ pc = "phonetic"
    /\ payload = Idle /\ env = NoEnv /\ lev_matches = <<>> /\ resp = NoResponse
    /\ invoked = {} /\ failed = "none" /\ p_in = Idle /\ p_out = Idle

Phonetic ==
    /\ pc = "phonetic"
    /\ ph_out' = [batched  |-> phonetic_scores(ph_in.query, ph_in.corpus, ph_in.metaphone),
                  pairwise |-> [i \in 1..Len(ph_in.corpus) |->
                                  phonetic_score(ph_in.query, ph_in.corpus[i],
                                                 ph_in.metaphone)]]
    /\ pc' = "phonetic_done"
    /\ UNCHANGED <<payload, env, lev_matches, resp, invoked, failed, p_in, p_out, ph_in>>

PhoneticNext == Phonetic

SpecPhonetic == PhoneticInit /\ [][PhoneticNext]_vars

----------------------------------------------------------------------------
(* Properties of the handler (Spec) *)

Done == pc = "done"

Returned == Done /\ failed = "none"

\* the scores of entry t in a method, before rounding; an entry the pruning
\* left out has semantic score 0
MethodScores(type, t) ==
    CASE type = "levenshtein" ->
             {ForwardScore(Title(payload), t), ReversedScore(Title(payload), t)}
      [] type = "phonetic" ->
             {phonetic_scores(Lower(Title(payload)), <<Lower(t)>>, env.metaphone)[1]}
      [] type = "lexical" -> {env.lexical[t]}
      [] type = "semantic" -> {IF env.sbert THEN env.semantic[t] ELSE 0, 0}
      [] OTHER -> {}

\* the best edit-distance score of entry t, forward or word-reversed
EditDistanceScore(t) ==
    Max(ForwardScore(Title(payload), t), ReversedScore(Title(payload), t))

MatchesOf(type) == {m \in Range(resp.matches) : m.type = type}

\* C1: the returned match list never holds two matches with the same
\* (title, type), on any return path.
C1_NoDuplicateTitleType ==
    Done => \A i, j \in 1..Len(resp.matches) :
                i # j => ~(/\ resp.matches[i].title = resp.matches[j].title
                           /\ resp.matches[i].type = resp.matches[j].type)

\* C2: when some entry has an edit-distance score (forward or word-reversed)
\* of at least max(threshold, 0.95), the result is "Not Unique", holds that
\* entry as an edit-distance match, holds edit-distance matches only, and no
\* other scorer was run.
C2_ShortCircuitCorrect ==
    Done /\ Title(payload) # <<>> =>
        \A t \in Range(Existing(payload)) :
            EditDistanceScore(t) >= Max(Threshold(payload), ShortCircuitFloor) =>
                /\ resp.status = "Not Unique"
                /\ \E m \in MatchesOf("levenshtein") : m.title = t
                /\ \A m \in Range(resp.matches) : m.type = "levenshtein"
                /\ invoked = {"levenshtein"}

\* no score of a method that was run is at or over the threshold
NothingClears ==
    LET title     == Title(payload)
        existing  == Existing(payload)
        threshold == Threshold(payload)
    IN  /\ \A t \in Range(existing) : EditDistanceScore(t) < threshold
        /\ \A type \in invoked \ {"levenshtein"} :
              \A t \in Range(existing) : \A x \in MethodScores(type, t) : x < threshold

\* C3: "Invalid" with no matches exactly when the trimmed title is empty;
\* otherwise "Unique" with no matches exactly when the corpus has no non-blank
\* entry or no score of a method that was run clears the threshold; otherwise
\* "Not Unique" with matches.  No scorer is invoked for an empty title or an
\* empty corpus.
C3_ResultStatus ==
    Done =>
        /\ resp.status \in {"Invalid", "Unique", "Not Unique"}
        /\ (resp.status = "Invalid") <=> (Title(payload) = <<>>)
        /\ Title(payload) # <<>> =>
              ((resp.status = "Unique") <=> (Existing(payload) = <<>> \/ NothingClears))
        /\ (resp.status = "Not Unique") <=> (resp.matches # <<>>)
        /\ Title(payload) = <<>> \/ Existing(payload) = <<>> => invoked = {}

\* C4: with the title, the corpus and the scores fixed, a higher threshold
\* never returns more matches.
C4_Monotone ==
    Returned =>
        \A t2 \in Thresholds :
            LET p2 == [payload EXCEPT !.threshold = t2]
                r2 == check_similarity(p2, env)
            IN  Threshold(p2) >= Threshold(payload) /\ r2.failed = "none" =>
                    Len(r2.matches) <= Len(resp.matches)

\* C5: a scorer that raises does not abort the request: the handler still
\* answers with a status, and the failed method contributes no match.
C5_ScorerFailureIsolated ==
    Done /\ failed # "none" =>
        /\ resp.status \in {"Unique", "Not Unique"}
        /\ MatchesOf(failed) = {}

\* a threshold clamped to [0, 1]; an absent one stays absent
Clamped(t) == IF t = None THEN None ELSE <<Max(0, Min(Scale, t[1]))>>

\* C6: a threshold outside [0, 1] gives the status and the matches of the
\* threshold clamped to [0, 1]; an absent threshold those of 0.75.
C6_ThresholdClamped ==
    Done =>
        LET r == check_similarity([payload EXCEPT !.threshold = Clamped(@)], env)
        IN  /\ resp.status = r.status
            /\ resp.matches = r.matches
            /\ payload.threshold = None => Threshold(payload) = (3 * Scale) \div 4

\* the words of b are the words of a in some order
SameWords(a, b) ==
    LET wa == Split(Lower(a))
        wb == Split(Lower(b))
    IN  /\ Len(wa) = Len(wb)
        /\ \A w \in Range(wa) \cup Range(wb) :
              Cardinality({i \in 1..Len(wa) : wa[i] = w})
                  = Cardinality({i \in 1..Len(wb) : wb[i] = w})

\* C8: an entry that is the title with its words in another order is
\* returned as an edit-distance match (for a threshold of at most 1.0), as
\* "2023 Quarterly Report" is for "Quarterly Report 2023" at 0.9.
C8_WordOrderDetected ==
    Done /\ Title(payload) # <<>> /\ Threshold(payload) <= Scale =>
        \A t \in Range(Existing(payload)) :
            SameWords(Title(payload), t) =>
                \E m \in MatchesOf("levenshtein") : m.title = t

\* C10: the returned matches are in order of non-increasing similarity, each
\* has the title of a trimmed non-blank corpus entry, and each stands for a
\* score of its method, before rounding, at or over the threshold.
C10_Ranking ==
    Returned =>
        /\ \A i \in 1..Len(resp.matches) - 1 :
              resp.matches[i].similarity >= resp.matches[i + 1].similarity
        /\ \A m \in Range(resp.matches) :
              /\ m.title \in Range(Existing(payload))
              /\ \E x \in MethodScores(m.type, m.title) :
                    x >= Threshold(payload) /\ m.similarity = Round4(x)

\* C10's case: a merged result of the narrowed path, an edit-distance match
\* ranked below a match of another method found after it
C10_Witness ==
    /\ Returned
    /\ resp.status = "Not Unique"
    /\ \E i, j \in 1..Len(resp.matches) :
          /\ i < j
          /\ resp.matches[i].type # "levenshtein"
          /\ resp.matches[j].type = "levenshtein"
          /\ resp.matches[i].similarity > resp.matches[j].similarity

----------------------------------------------------------------------------
(* Properties of the candidate selection (SpecPrune) *)

Pruned == pc = "pruned"

Selected == Range(p_out.indices)

\* the parts of C7 the selection keeps: the indices handed on are indices of
\* the corpus, each once; an index left out keeps semantic score 0; an index
\* whose lexical score is at least max(threshold - 0.1, 0) is handed on
SelectionSound ==
    LET n     == Len(p_in.lexical)
        bound == Max(p_in.threshold - Scale \div 10, 0)
    IN  /\ Selected \subseteq 1..n
        /\ Cardinality(Selected) = Len(p_out.indices)
        /\ \A i \in 1..n : i \notin Selected => p_out.semantic[i] = 0
        /\ \A i \in Selected : p_out.semantic[i] = p_in.cosine
        /\ \A i \in 1..n : p_in.lexical[i] >= bound => i \in Selected

\* C7 as claimed: at most min(cap, |corpus|) indices are handed to the
\* semantic scorer, an index left out keeps 0.0, every index with a lexical
\* score of at least max(threshold - 0.1, 0) is handed on, each once.
C7_AtMostCap ==
    Pruned =>
        /\ Len(p_out.indices) <= Min(SemanticCap, Len(p_in.lexical))
        /\ SelectionSound

\* C7 amended: the indices handed on are the min(cap, |corpus|) of highest
\* lexical score and every other index with a lexical score of at least
\* max(threshold - 0.1, 0), so their number is at least min(cap, |corpus|)
\* and at most |corpus|, and it is over the cap exactly when an index outside
\* the first cap has such a score.
C7_Selection ==
    Pruned =>
        LET n     == Len(p_in.lexical)
            cap   == Min(SemanticCap, n)
            bound == Max(p_in.threshold - Scale \div 10, 0)
            kept  == {i \in 1..n : p_in.lexical[i] >= bound}
        IN  /\ SelectionSound
            /\ cap <= Len(p_out.indices)
            /\ Len(p_out.indices) <= n
            /\ Len(p_out.indices) = Max(cap, Cardinality(kept))
            /\ \A i \in Selected : \A j \in (1..n) \ Selected :
                  p_in.lexical[i] >= p_in.lexical[j]

\* C7's case: more entries than the cap, more indices handed on than the
\* cap, and an index left out
C7_Witness ==
    /\ Pruned
    /\ Len(p_in.lexical) > SemanticCap
    /\ Len(p_out.indices) > SemanticCap
    /\ Len(p_out.indices) < Len(p_in.lexical)

----------------------------------------------------------------------------
(* Properties of the phonetic scorers (SpecPhonetic) *)

\* C9: the batched scorer gives every entry the score the per-pair scorer
\* gives it, also when the code of the query, of the entry or of both is
\* empty.
C9_BatchedEqualsPairwise ==
    pc = "phonetic_done" =>
        \A i \in 1..Len(ph_in.corpus) : ph_out.batched[i] = ph_out.pairwise[i]

====
